---- MODULE Spec2Model ----
(***************************************************************************)
(* MeshSync wire protocol: msProtocol.h / msProtocol.cpp.                  *)
(*                                                                         *)
(* The message classes and their serialize / deserialize members are       *)
(* translated from msProtocol.cpp.  The stream primitives write() / read() *)
(* (msSerializer), getSerializeSize(), the frame dispatcher, the fence     *)
(* consumer and the resolver / waiter of request messages are not part of  *)
(* these two files; they are modelled from the protocol description.       *)
(***************************************************************************)
EXTENDS Integers, Sequences, FiniteSets, TLC

VARIABLES
    \* ---- one message through the codec (serialize -> stream -> deserialize)
    msg,        \* the sender's message object, NoMsg before construction
    os,         \* the bytes written by serialize (std::ostream)
    origin,     \* which build wrote os: "none", "local", "peer"
    size,       \* the value returned by getSerializeSize(), -1 while not asked
    rmsg,       \* the receiver's message object after deserialize
    rpos,       \* read position of the std::istream after deserialize
    result,     \* "none", "ok", "VersionMismatch"
    phase,      \* "idle", "constructed", "serialized", "deserialized"
    \* ---- one session: producer -> channel -> dispatcher -> fence consumer
    channel,    \* frames in flight, each [orig |-> message, bytes |-> wire bytes]
    nsent,      \* number of frames the producer has sent
    log,        \* the messages of the frames received so far, as they were sent
    decoded,    \* the variant constructed for the last frame, NoMsg if none
    lastResult, \* outcome of the last frame
    fenceOpen,  \* consumer: inside SceneBegin .. SceneEnd
    staged,     \* consumer: mutations staged since SceneBegin
    applied,    \* consumer: scene updates applied so far, each a sequence of mutations
    \* ---- one request message shared by an issuer, a resolver and a waiter
    req,        \* the shared request object, NoMsg before construction
    attach,     \* the Response the resolver is going to attach
    rpc,        \* resolver position
    wpc,        \* waiter position
    seen,       \* the value of ready the waiter loaded last
    got         \* the response the waiter read after seeing ready

codecVars == <<msg, os, origin, size, rmsg, rpos, result, phase>>
sessionVars == <<channel, nsent, log, decoded, lastResult, fenceOpen, staged, applied>>
asyncVars == <<req, attach, rpc, wpc, seen, got>>
vars == <<codecVars, sessionVars, asyncVars>>

(***************************************************************************)
(* Bounds of the model.                                                    *)
(***************************************************************************)
MaxEntities == 3    \* longest entities sequence of a Delete
MaxGroup == 1       \* longest materials / instances sequence of a Delete
MaxStr == 2         \* longest string
MaxTexts == 2       \* longest Response text sequence
MaxStream == 4      \* frames sent in one session

(***************************************************************************)
(* Program constants.                                                      *)
(***************************************************************************)
msProtocolVersion == 123
InvalidID == -1
PeerProtocolVersion == msProtocolVersion + 1

\* Message::Type
Type_Unknown == 0
Type_Get == 1
Type_Set == 2
Type_Delete == 3
Type_Fence == 4
Type_Text == 5
Type_Screenshot == 6
Type_Query == 7
Type_Response == 8
Type_Poll == 9
\* FenceMessage::FenceType
FenceType_Unknown == 0
FenceType_SceneBegin == 1
FenceType_SceneEnd == 2
\* TextMessage::Type
TextType_Normal == 0
TextType_Warning == 1
TextType_Error == 2
\* QueryMessage::QueryType
QueryType_Unknown == 0
QueryType_ClientName == 1
QueryType_RootNodes == 2
QueryType_AllNodes == 3
\* PollMessage::PollType
PollType_Unknown == 0
PollType_SceneUpdate == 1
\* GetFlags: twelve one-bit fields, all set by SetAllGetFlags
AllGetFlags == 4095

NoMsg == [kind |-> "None"]
Null == [kind |-> "Null"]

Kinds == {"Get", "Set", "Delete", "Fence", "Text", "Screenshot", "Query", "Response", "Poll"}
RequestKinds == {"Get", "Screenshot", "Query", "Poll"}

(***************************************************************************)
(* Stream primitives: write(os, v) appends v's encoding, read(is, v)       *)
(* consumes it.  A stream is a sequence of bytes 0..255; a reader is a     *)
(* position p, the number of bytes consumed so far.                        *)
(***************************************************************************)
Byte(v, i) == (v \div (256 ^ i)) % 256

\* 32-bit integer, little endian, two's complement
write_int(v) == <<Byte(v, 0), Byte(v, 1), Byte(v, 2), Byte(v, 3)>>

read_int(is, p) ==
    LET b3 == is[p + 4]
        hi == IF b3 >= 128 THEN b3 - 256 ELSE b3
    IN [val |-> is[p + 1] + 256 * is[p + 2] + 65536 * is[p + 3] + 16777216 * hi,
        pos |-> p + 4]

\* 64-bit unsigned integer (the send timestamp); the model's values fit 31 bits
write_uint64(v) == write_int(v) \o <<0, 0, 0, 0>>

read_uint64(is, p) ==
    [val |-> is[p + 1] + 256 * is[p + 2] + 65536 * is[p + 3] + 16777216 * is[p + 4],
     pos |-> p + 8]

\* std::string and opaque blobs: byte count, then the bytes
write_string(s) == write_int(Len(s)) \o s

read_string(is, p) ==
    LET n == read_int(is, p)
    IN [val |-> SubSeq(is, n.pos + 1, n.pos + n.val), pos |-> n.pos + n.val]

\* std::vector<Identifier>: element count, then the elements in order
RECURSIVE write_ints(_)
write_ints(v) == IF v = <<>> THEN <<>> ELSE write_int(Head(v)) \o write_ints(Tail(v))

write_vector_int(v) == write_int(Len(v)) \o write_ints(v)

read_vector_int(is, p) ==
    LET n == read_int(is, p)
    IN [val |-> [i \in 1..n.val |-> read_int(is, n.pos + 4 * (i - 1)).val],
        pos |-> n.pos + 4 * n.val]

\* std::vector<std::string>: element count, then each string in order
RECURSIVE write_strings(_)
write_strings(v) == IF v = <<>> THEN <<>> ELSE write_string(Head(v)) \o write_strings(Tail(v))

write_vector_string(v) == write_int(Len(v)) \o write_strings(v)

RECURSIVE read_strings(_, _, _)
read_strings(is, p, n) ==
    IF n = 0 THEN [val |-> <<>>, pos |-> p]
    ELSE LET s == read_string(is, p)
             r == read_strings(is, s.pos, n - 1)
         IN [val |-> <<s.val>> \o r.val, pos |-> r.pos]

read_vector_string(is, p) ==
    LET n == read_int(is, p)
    IN read_strings(is, n.pos, n.val)

(***************************************************************************)
(* Message and its subclasses: constructors.  A std::atomic_bool member    *)
(* without an initializer is left uninitialized by the constructor, so its *)
(* value after construction is either one; r is that value.                *)
(***************************************************************************)
Message_ctor(k) ==
    [kind |-> k,
     protocol_version |-> msProtocolVersion,
     session_id |-> InvalidID,
     message_id |-> 0,
     timestamp_send |-> 0]

Extend(m, f) == [x \in (DOMAIN m) \cup (DOMAIN f) |-> IF x \in DOMAIN f THEN f[x] ELSE m[x]]

GetMessage_ctor(r) ==
    Extend(Message_ctor("Get"),
           [flags |-> AllGetFlags, scene_settings |-> 0, refine_settings |-> 0, ready |-> r])

SetMessage_ctor == Extend(Message_ctor("Set"), [scene |-> <<>>])

DeleteMessage_ctor ==
    Extend(Message_ctor("Delete"), [entities |-> <<>>, materials |-> <<>>, instances |-> <<>>])

FenceMessage_ctor == Extend(Message_ctor("Fence"), [type |-> FenceType_Unknown])

TextMessage_ctor == Extend(Message_ctor("Text"), [text |-> <<>>, type |-> TextType_Normal])

ScreenshotMessage_ctor(r) == Extend(Message_ctor("Screenshot"), [ready |-> r])

QueryMessage_ctor(r) ==
    Extend(Message_ctor("Query"), [query_type |-> QueryType_Unknown, ready |-> r, response |-> Null])

ResponseMessage_ctor == Extend(Message_ctor("Response"), [text |-> <<>>])

PollMessage_ctor(r) == Extend(Message_ctor("Poll"), [poll_type |-> PollType_Unknown, ready |-> r])

\* the objects a constructor of kind k can leave behind
Constructed(k) ==
    CASE k = "Get" -> {GetMessage_ctor(r) : r \in BOOLEAN}
      [] k = "Set" -> {SetMessage_ctor}
      [] k = "Delete" -> {DeleteMessage_ctor}
      [] k = "Fence" -> {FenceMessage_ctor}
      [] k = "Text" -> {TextMessage_ctor}
      [] k = "Screenshot" -> {ScreenshotMessage_ctor(r) : r \in BOOLEAN}
      [] k = "Query" -> {QueryMessage_ctor(r) : r \in BOOLEAN}
      [] k = "Response" -> {ResponseMessage_ctor}
      [] k = "Poll" -> {PollMessage_ctor(r) : r \in BOOLEAN}

(***************************************************************************)
(* serialize: the bytes appended to the stream.                            *)
(***************************************************************************)
Message_serialize_noTimestamp(m) ==
    write_int(m.protocol_version) \o write_int(m.session_id) \o write_int(m.message_id)

Message_serialize_swapIds(m) ==
    write_int(m.protocol_version) \o write_int(m.message_id) \o write_int(m.session_id)
        \o write_uint64(m.timestamp_send)

Message_serialize(m) ==
    write_int(m.protocol_version) \o write_int(m.session_id) \o write_int(m.message_id)
        \o write_uint64(m.timestamp_send)

GetMessage_serialize(m) ==
    Message_serialize(m) \o write_int(m.flags) \o write_int(m.scene_settings)
        \o write_int(m.refine_settings)

SetMessage_serialize(m) == Message_serialize(m) \o write_string(m.scene)

DeleteMessage_serialize(m) ==
    Message_serialize(m) \o write_vector_int(m.entities) \o write_vector_int(m.materials)
        \o write_vector_int(m.instances)

FenceMessage_serialize(m) == Message_serialize(m) \o write_int(m.type)

TextMessage_serialize(m) == Message_serialize(m) \o write_string(m.text) \o write_int(m.type)

ScreenshotMessage_serialize(m) == Message_serialize(m)

ResponseMessage_serialize(m) == Message_serialize(m) \o write_vector_string(m.text)

QueryMessage_serialize(m) == Message_serialize(m) \o write_int(m.query_type)

PollMessage_serialize(m) == Message_serialize(m) \o write_int(m.poll_type)

\* virtual dispatch of Message::serialize
serialize(m) ==
    CASE m.kind = "Get" -> GetMessage_serialize(m)
      [] m.kind = "Set" -> SetMessage_serialize(m)
      [] m.kind = "Delete" -> DeleteMessage_serialize(m)
      [] m.kind = "Fence" -> FenceMessage_serialize(m)
      [] m.kind = "Text" -> TextMessage_serialize(m)
      [] m.kind = "Screenshot" -> ScreenshotMessage_serialize(m)
      [] m.kind = "Query" -> QueryMessage_serialize(m)
      [] m.kind = "Response" -> ResponseMessage_serialize(m)
      [] m.kind = "Poll" -> PollMessage_serialize(m)

(***************************************************************************)
(* deserialize: m is the object read into, is the stream, p the position.  *)
(* The result is the object, the position reached and the exception        *)
(* thrown ("none" if none); an exception of super::deserialize propagates  *)
(* through the subclass, which reads nothing more.                         *)
(***************************************************************************)
Message_deserialize_lateCheck(m, is, p) ==
    LET v == read_int(is, p)
        s == read_int(is, v.pos)
        i == read_int(is, s.pos)
        t == read_uint64(is, i.pos)
        m1 == [m EXCEPT !.protocol_version = v.val, !.session_id = s.val,
                        !.message_id = i.val, !.timestamp_send = t.val]
    IN IF v.val # msProtocolVersion
       THEN [m |-> m1, pos |-> t.pos, err |-> "VersionMismatch"]
       ELSE [m |-> m1, pos |-> t.pos, err |-> "none"]

Message_deserialize_checkAfterSession(m, is, p) ==
    LET v == read_int(is, p)
        s == read_int(is, v.pos)
        i == read_int(is, s.pos)
        t == read_uint64(is, i.pos)
        m1 == [m EXCEPT !.protocol_version = v.val, !.session_id = s.val]
    IN IF v.val # msProtocolVersion
       THEN [m |-> m1, pos |-> s.pos, err |-> "VersionMismatch"]
       ELSE [m |-> [m1 EXCEPT !.message_id = i.val, !.timestamp_send = t.val],
             pos |-> t.pos, err |-> "none"]

Message_deserialize(m, is, p) ==
    LET v == read_int(is, p)
        m1 == [m EXCEPT !.protocol_version = v.val]
    IN IF v.val # msProtocolVersion
       THEN [m |-> m1, pos |-> v.pos, err |-> "VersionMismatch"]
       ELSE LET s == read_int(is, v.pos)
                i == read_int(is, s.pos)
                t == read_uint64(is, i.pos)
            IN [m |-> [m1 EXCEPT !.session_id = s.val, !.message_id = i.val,
                                 !.timestamp_send = t.val],
                pos |-> t.pos, err |-> "none"]

GetMessage_deserialize(m, is, p) ==
    LET b == Message_deserialize(m, is, p)
    IN IF b.err # "none" THEN b
       ELSE LET f == read_int(is, b.pos)
                s == read_int(is, f.pos)
                r == read_int(is, s.pos)
            IN [m |-> [b.m EXCEPT !.flags = f.val, !.scene_settings = s.val,
                                  !.refine_settings = r.val],
                pos |-> r.pos, err |-> "none"]

SetMessage_deserialize_dropScene(m, is, p) ==
    LET b == Message_deserialize(m, is, p)
    IN IF b.err # "none" THEN b
       ELSE LET s == read_string(is, b.pos)
            IN [m |-> b.m, pos |-> s.pos, err |-> "none"]

SetMessage_deserialize(m, is, p) ==
    LET b == Message_deserialize(m, is, p)
    IN IF b.err # "none" THEN b
       ELSE LET s == read_string(is, b.pos)
            IN [m |-> [b.m EXCEPT !.scene = s.val], pos |-> s.pos, err |-> "none"]

DeleteMessage_deserialize_swapGroups(m, is, p) ==
    LET b == Message_deserialize(m, is, p)
    IN IF b.err # "none" THEN b
       ELSE LET e == read_vector_int(is, b.pos)
                a == read_vector_int(is, e.pos)
                i == read_vector_int(is, a.pos)
            IN [m |-> [b.m EXCEPT !.entities = a.val, !.materials = e.val,
                                  !.instances = i.val],
                pos |-> i.pos, err |-> "none"]

DeleteMessage_deserialize(m, is, p) ==
    LET b == Message_deserialize(m, is, p)
    IN IF b.err # "none" THEN b
       ELSE LET e == read_vector_int(is, b.pos)
                a == read_vector_int(is, e.pos)
                i == read_vector_int(is, a.pos)
            IN [m |-> [b.m EXCEPT !.entities = e.val, !.materials = a.val,
                                  !.instances = i.val],
                pos |-> i.pos, err |-> "none"]

FenceMessage_deserialize_skipType(m, is, p) ==
    LET b == Message_deserialize(m, is, p)
    IN IF b.err # "none" THEN b
       ELSE [m |-> b.m, pos |-> b.pos + 4, err |-> "none"]

FenceMessage_deserialize(m, is, p) ==
    LET b == Message_deserialize(m, is, p)
    IN IF b.err # "none" THEN b
       ELSE LET t == read_int(is, b.pos)
            IN [m |-> [b.m EXCEPT !.type = t.val], pos |-> t.pos, err |-> "none"]

TextMessage_deserialize(m, is, p) ==
    LET b == Message_deserialize(m, is, p)
    IN IF b.err # "none" THEN b
       ELSE LET s == read_string(is, b.pos)
                t == read_int(is, s.pos)
            IN [m |-> [b.m EXCEPT !.text = s.val, !.type = t.val],
                pos |-> t.pos, err |-> "none"]

ScreenshotMessage_deserialize(m, is, p) == Message_deserialize(m, is, p)

ResponseMessage_deserialize(m, is, p) ==
    LET b == Message_deserialize(m, is, p)
    IN IF b.err # "none" THEN b
       ELSE LET t == read_vector_string(is, b.pos)
            IN [m |-> [b.m EXCEPT !.text = t.val], pos |-> t.pos, err |-> "none"]

QueryMessage_deserialize(m, is, p) ==
    LET b == Message_deserialize(m, is, p)
    IN IF b.err # "none" THEN b
       ELSE LET t == read_int(is, b.pos)
            IN [m |-> [b.m EXCEPT !.query_type = t.val], pos |-> t.pos, err |-> "none"]

PollMessage_deserialize(m, is, p) ==
    LET b == Message_deserialize(m, is, p)
    IN IF b.err # "none" THEN b
       ELSE LET t == read_int(is, b.pos)
            IN [m |-> [b.m EXCEPT !.poll_type = t.val], pos |-> t.pos, err |-> "none"]

\* virtual dispatch of Message::deserialize
deserialize(m, is, p) ==
    CASE m.kind = "Get" -> GetMessage_deserialize(m, is, p)
      [] m.kind = "Set" -> SetMessage_deserialize(m, is, p)
      [] m.kind = "Delete" -> DeleteMessage_deserialize(m, is, p)
      [] m.kind = "Fence" -> FenceMessage_deserialize(m, is, p)
      [] m.kind = "Text" -> TextMessage_deserialize(m, is, p)
      [] m.kind = "Screenshot" -> ScreenshotMessage_deserialize(m, is, p)
      [] m.kind = "Query" -> QueryMessage_deserialize(m, is, p)
      [] m.kind = "Response" -> ResponseMessage_deserialize(m, is, p)
      [] m.kind = "Poll" -> PollMessage_deserialize(m, is, p)

(***************************************************************************)
(* getSerializeSize: declared for Message and every subclass; the byte     *)
(* count of each field, summed in the order serialize writes them.         *)
(***************************************************************************)
ssize_string(s) == 4 + Len(s)

ssize_vector_int(v) == 4 + 4 * Len(v)

RECURSIVE ssize_strings(_)
ssize_strings(v) == IF v = <<>> THEN 0 ELSE ssize_string(Head(v)) + ssize_strings(Tail(v))

ssize_vector_string(v) == 4 + ssize_strings(v)

Message_getSerializeSize(m) == 4 + 4 + 4 + 8

getSerializeSize(m) ==
    Message_getSerializeSize(m) +
    CASE m.kind = "Get" -> 4 + 4 + 4
      [] m.kind = "Set" -> ssize_string(m.scene)
      [] m.kind = "Delete" ->
            ssize_vector_int(m.entities) + ssize_vector_int(m.materials)
                + ssize_vector_int(m.instances)
      [] m.kind = "Fence" -> 4
      [] m.kind = "Text" -> ssize_string(m.text) + 4
      [] m.kind = "Screenshot" -> 0
      [] m.kind = "Query" -> 4
      [] m.kind = "Response" -> ssize_vector_string(m.text)
      [] m.kind = "Poll" -> 4

(***************************************************************************)
(* Values the callers put into the fields of a message.                    *)
(***************************************************************************)
SeqsUpTo(S, n) == UNION {[1..k -> S] : k \in 0..n}

SessionIds == {InvalidID, 7}
MessageIds == {0, 300}
Timestamps == {0, 70000}
Identifiers == {1, 2, 3}
GroupIdentifiers == {1, 2}
Chars == {97, 98}
Strings == SeqsUpTo(Chars, MaxStr)
Scenes == {<<>>, <<5>>, <<6, 7>>}

Payloads(m) ==
    CASE m.kind = "Get" ->
            {[m EXCEPT !.flags = f, !.scene_settings = s, !.refine_settings = r] :
                f \in {0, AllGetFlags}, s \in {0, 1}, r \in {0, 1}}
      [] m.kind = "Set" -> {[m EXCEPT !.scene = s] : s \in Scenes}
      [] m.kind = "Delete" ->
            {[m EXCEPT !.entities = e, !.materials = a, !.instances = i] :
                e \in SeqsUpTo(Identifiers, MaxEntities),
                a \in SeqsUpTo(GroupIdentifiers, MaxGroup),
                i \in SeqsUpTo(GroupIdentifiers, MaxGroup)}
      [] m.kind = "Fence" ->
            {[m EXCEPT !.type = t] :
                t \in {FenceType_Unknown, FenceType_SceneBegin, FenceType_SceneEnd}}
      [] m.kind = "Text" ->
            {[m EXCEPT !.text = s, !.type = t] :
                s \in Strings, t \in {TextType_Normal, TextType_Warning, TextType_Error}}
      [] m.kind = "Screenshot" -> {m}
      [] m.kind = "Query" ->
            {[m EXCEPT !.query_type = t] :
                t \in {QueryType_Unknown, QueryType_ClientName, QueryType_RootNodes,
                       QueryType_AllNodes}}
      [] m.kind = "Response" -> {[m EXCEPT !.text = t] : t \in SeqsUpTo(Strings, MaxTexts)}
      [] m.kind = "Poll" ->
            {[m EXCEPT !.poll_type = t] : t \in {PollType_Unknown, PollType_SceneUpdate}}

Envelopes(m) ==
    {[m EXCEPT !.session_id = s, !.message_id = i, !.timestamp_send = t] :
        s \in SessionIds, i \in MessageIds, t \in Timestamps}

\* the fields of a message that are on the wire
Wire(m) == [x \in (DOMAIN m) \ {"ready", "response"} |-> m[x]]

(***************************************************************************)
(* Initial state.                                                          *)
(***************************************************************************)
Init ==
    /\ msg = NoMsg
    /\ os = <<>>
    /\ origin = "none"
    /\ size = -1
    /\ rmsg = NoMsg
    /\ rpos = 0
    /\ result = "none"
    /\ phase = "idle"
    /\ channel = <<>>
    /\ nsent = 0
    /\ log = <<>>
    /\ decoded = NoMsg
    /\ lastResult = "none"
    /\ fenceOpen = FALSE
    /\ staged = <<>>
    /\ applied = <<>>
    /\ req = NoMsg
    /\ attach = Null
    /\ rpc = "idle"
    /\ wpc = "idle"
    /\ seen = FALSE
    /\ got = NoMsg

(***************************************************************************)
(* Codec: one message constructed, filled in, serialized and deserialized  *)
(* into a fresh object of the same kind.                                   *)
(***************************************************************************)
Construct ==
    /\ phase = "idle"
    /\ \E k \in Kinds : msg' \in Constructed(k)
    /\ phase' = "constructed"
    /\ UNCHANGED <<os, origin, size, rmsg, rpos, result>>
    /\ UNCHANGED <<sessionVars, asyncVars>>

Fill ==
    /\ phase = "constructed"
    /\ \E e \in Envelopes(msg) : msg' \in Payloads(e)
    /\ phase' = "filled"
    /\ UNCHANGED <<os, origin, size, rmsg, rpos, result>>
    /\ UNCHANGED <<sessionVars, asyncVars>>

GetSerializeSize ==
    /\ phase = "filled"
    /\ size = -1
    /\ size' = getSerializeSize(msg)
    /\ UNCHANGED <<msg, os, origin, rmsg, rpos, result, phase>>
    /\ UNCHANGED <<sessionVars, asyncVars>>

Serialize ==
    /\ phase = "filled"
    /\ os' = serialize(msg)
    /\ origin' = "local"
    /\ phase' = "serialized"
    /\ UNCHANGED <<msg, size, rmsg, rpos, result>>
    /\ UNCHANGED <<sessionVars, asyncVars>>

\* the same message written by a peer whose build has another msProtocolVersion
PeerSerialize ==
    /\ phase = "filled"
    /\ os' = serialize([msg EXCEPT !.protocol_version = PeerProtocolVersion])
    /\ origin' = "peer"
    /\ phase' = "serialized"
    /\ UNCHANGED <<msg, size, rmsg, rpos, result>>
    /\ UNCHANGED <<sessionVars, asyncVars>>

Deserialize ==
    /\ phase = "serialized"
    /\ \E fresh \in Constructed(msg.kind) :
          LET d == deserialize(fresh, os, 0)
          IN /\ rmsg' = d.m
             /\ rpos' = d.pos
             /\ result' = IF d.err = "none" THEN "ok" ELSE d.err
    /\ phase' = "deserialized"
    /\ UNCHANGED <<msg, os, origin, size>>
    /\ UNCHANGED <<sessionVars, asyncVars>>

NextCodec ==
    \/ Construct
    \/ Fill
    \/ GetSerializeSize
    \/ Serialize
    \/ PeerSerialize
    \/ Deserialize

SpecCodec == Init /\ [][NextCodec]_vars

(***************************************************************************)
(* Properties of the codec.                                                *)
(***************************************************************************)
Rejected == phase = "deserialized" /\ result = "VersionMismatch"

\* C1: for every kind, deserialize of a stream whose first field differs from
\* msProtocolVersion fails with the protocol-version error, and it fails right
\* after protocol_version is read: the position is just behind that field and
\* every other field of the object is as its constructor left it.
C1_VersionGate ==
    phase = "deserialized" =>
        /\ (read_int(os, 0).val # msProtocolVersion) <=> (result = "VersionMismatch")
        /\ result = "VersionMismatch" =>
              /\ rpos = Len(write_int(msg.protocol_version))
              /\ \E fresh \in Constructed(msg.kind) :
                    rmsg = [fresh EXCEPT !.protocol_version = read_int(os, 0).val]

C1_Witness ==
    /\ Rejected
    /\ msg.kind = "Text"
    /\ msg.text = <<97, 98>>
    /\ msg.session_id = 7
    /\ rmsg.session_id = InvalidID
    /\ rmsg.text = <<>>

\* C6: for every kind and payload, the bytes written by serialize, read by
\* deserialize into a fresh object of the same kind, give back every field that
\* is on the wire, and the whole stream is consumed.
C6_RoundTrip ==
    (phase = "deserialized" /\ origin = "local") =>
        /\ result = "ok"
        /\ Wire(rmsg) = Wire(msg)
        /\ rpos = Len(os)

C6_Witness ==
    /\ phase = "deserialized"
    /\ origin = "local"
    /\ msg.kind = "Response"
    /\ msg.text = <<<<97, 98>>, <<>>>>
    /\ msg.session_id = InvalidID
    /\ msg.message_id = 300
    /\ msg.timestamp_send = 70000
    /\ rmsg.text = <<<<97, 98>>, <<>>>>

\* C7: getSerializeSize() is the number of bytes serialize writes.
C7_SizeHonest ==
    (size # -1 /\ phase \in {"serialized", "deserialized"}) => size = Len(os)

C7_Witness ==
    /\ size = 35
    /\ phase = "serialized"
    /\ msg.kind = "Response"
    /\ msg.text = <<<<97>>, <<98, 98>>>>
    /\ Len(os) = 35

\* C9 as stated: at the rejection of a version V+1 message the read position is
\* behind the whole header (protocol_version, session_id, message_id, timestamp).
C9_PositionAfterHeader ==
    (Rejected /\ origin = "peer") => rpos = Len(Message_serialize(msg))

\* C9 as amended: at the rejection the read position is just behind
\* protocol_version, inside the header; session_id, message_id, the timestamp and
\* all payload bytes are left unconsumed.
C9_PositionAfterVersion ==
    (Rejected /\ origin = "peer") =>
        /\ rpos = Len(write_int(PeerProtocolVersion))
        /\ rpos < Len(Message_serialize(msg))
        /\ Len(Message_serialize(msg)) <= Len(os)

C9_Witness ==
    /\ Rejected
    /\ origin = "peer"
    /\ msg.kind = "Set"
    /\ msg.scene = <<6, 7>>
    /\ rpos = 4
    /\ Len(os) = 26

\* C10: a Delete is written and read as entities, materials, instances, in that
\* order, and each sequence comes back with its elements in the order written.
C10_DeleteOrder ==
    (phase = "deserialized" /\ msg.kind = "Delete" /\ origin = "local") =>
        /\ os = Message_serialize(msg) \o write_vector_int(msg.entities)
                    \o write_vector_int(msg.materials) \o write_vector_int(msg.instances)
        /\ rmsg.entities = msg.entities
        /\ rmsg.materials = msg.materials
        /\ rmsg.instances = msg.instances

C10_Witness ==
    /\ phase = "deserialized"
    /\ msg.kind = "Delete"
    /\ msg.entities = <<3, 1, 2>>
    /\ msg.materials = <<2>>
    /\ msg.instances = <<1>>
    /\ rmsg.entities = <<3, 1, 2>>
    /\ rmsg.materials = <<2>>
    /\ rmsg.instances = <<1>>

(***************************************************************************)
(* Session: the producer frames each message as a discriminant byte        *)
(* followed by the serialized message; the receiver reads the discriminant,*)
(* constructs the empty variant and deserializes the rest into it.         *)
(***************************************************************************)
KindOfTag ==
    [t \in {Type_Get, Type_Set, Type_Delete, Type_Fence, Type_Text, Type_Screenshot,
            Type_Query, Type_Response, Type_Poll} |->
        CASE t = Type_Get -> "Get"
          [] t = Type_Set -> "Set"
          [] t = Type_Delete -> "Delete"
          [] t = Type_Fence -> "Fence"
          [] t = Type_Text -> "Text"
          [] t = Type_Screenshot -> "Screenshot"
          [] t = Type_Query -> "Query"
          [] t = Type_Response -> "Response"
          [] t = Type_Poll -> "Poll"]

TagOfKind(k) == CHOOSE t \in DOMAIN KindOfTag : KindOfTag[t] = k

EncodeFrame(m) == <<TagOfKind(m.kind)>> \o serialize(m)

\* an exception of deserialize destroys the variant
Decoded(d) == IF d.err # "none" THEN [err |-> d.err, m |-> NoMsg] ELSE [err |-> "none", m |-> d.m]

\* r is the value the constructor leaves in an uninitialized ready member
EmptyVariant(k, r) == CHOOSE m \in Constructed(k) : "ready" \in DOMAIN m => m.ready = r

DecodeFrame_acceptAnyTag(bytes, r) ==
    IF bytes[1] \notin DOMAIN KindOfTag
    THEN Decoded(deserialize(EmptyVariant("Text", r), bytes, 1))
    ELSE Decoded(deserialize(EmptyVariant(KindOfTag[bytes[1]], r), bytes, 1))

DecodeFrame(bytes, r) ==
    IF bytes[1] \notin DOMAIN KindOfTag
    THEN [err |-> "UnknownKind", m |-> NoMsg]
    ELSE Decoded(deserialize(EmptyVariant(KindOfTag[bytes[1]], r), bytes, 1))

(***************************************************************************)
(* Fence consumer.  c is the consumer state [open, staged, applied, res].  *)
(* A mutation received outside a fence is applied as an update of its own. *)
(***************************************************************************)
recvFence(c, m) ==
    CASE m.type = FenceType_SceneBegin ->
            IF c.open
            THEN [c EXCEPT !.res = "FenceSequencingError"]
            ELSE [c EXCEPT !.open = TRUE, !.staged = <<>>, !.res = "ok"]
      [] m.type = FenceType_SceneEnd ->
            IF ~c.open
            THEN [c EXCEPT !.res = "FenceSequencingError"]
            ELSE [c EXCEPT !.open = FALSE, !.staged = <<>>,
                           !.applied = Append(c.applied, c.staged), !.res = "ok"]
      [] OTHER -> [c EXCEPT !.res = "ok"]

recvMutation(c, m) ==
    IF c.open
    THEN [c EXCEPT !.staged = Append(c.staged, Wire(m)), !.res = "ok"]
    ELSE [c EXCEPT !.applied = Append(c.applied, <<Wire(m)>>), !.res = "ok"]

Consume(c, m) ==
    CASE m.kind = "Fence" -> recvFence(c, m)
      [] m.kind \in {"Set", "Delete"} -> recvMutation(c, m)
      [] OTHER -> [c EXCEPT !.res = "ok"]

\* the consumer after a frame decoded as d
Dispatch(c, d) == IF d.err # "none" THEN [c EXCEPT !.res = d.err] ELSE Consume(c, d.m)

\* ---- producer
Frame(m) == [orig |-> m, bytes |-> EncodeFrame(m)]

SendFence ==
    /\ nsent < MaxStream
    /\ nsent' = nsent + 1
    /\ \E t \in {FenceType_Unknown, FenceType_SceneBegin, FenceType_SceneEnd} :
          channel' = Append(channel, Frame([FenceMessage_ctor EXCEPT !.type = t]))
    /\ UNCHANGED <<log, decoded, lastResult, fenceOpen, staged, applied>>
    /\ UNCHANGED <<codecVars, asyncVars>>

SendSet ==
    /\ nsent < MaxStream
    /\ nsent' = nsent + 1
    /\ \E s \in {<<5>>, <<6, 7>>} :
          channel' = Append(channel, Frame([SetMessage_ctor EXCEPT !.scene = s]))
    /\ UNCHANGED <<log, decoded, lastResult, fenceOpen, staged, applied>>
    /\ UNCHANGED <<codecVars, asyncVars>>

SendDelete ==
    /\ nsent < MaxStream
    /\ nsent' = nsent + 1
    /\ channel' = Append(channel, Frame([DeleteMessage_ctor EXCEPT !.entities = <<3, 1, 2>>,
                                                                  !.materials = <<2>>]))
    /\ UNCHANGED <<log, decoded, lastResult, fenceOpen, staged, applied>>
    /\ UNCHANGED <<codecVars, asyncVars>>

\* a frame whose discriminant is outside the kinds
SendUnknownKind ==
    /\ nsent < MaxStream
    /\ nsent' = nsent + 1
    /\ \E tag \in {Type_Unknown, 10} :
          channel' = Append(channel, [orig |-> [kind |-> "Bad", tag |-> tag],
                                      bytes |-> <<tag>> \o serialize(TextMessage_ctor)])
    /\ UNCHANGED <<log, decoded, lastResult, fenceOpen, staged, applied>>
    /\ UNCHANGED <<codecVars, asyncVars>>

\* ---- receiver: one frame decoded, dispatched and consumed
Receive ==
    /\ channel # <<>>
    /\ \E r \in BOOLEAN :
          \E d \in {DecodeFrame(Head(channel).bytes, r)} :
             \E n \in {Dispatch([open |-> fenceOpen, staged |-> staged,
                                 applied |-> applied, res |-> lastResult], d)} :
                /\ decoded' = d.m
                /\ lastResult' = n.res
                /\ fenceOpen' = n.open
                /\ staged' = n.staged
                /\ applied' = n.applied
    /\ log' = Append(log, Head(channel).orig)
    /\ channel' = Tail(channel)
    /\ UNCHANGED nsent
    /\ UNCHANGED <<codecVars, asyncVars>>

NextSession ==
    \/ SendFence
    \/ SendSet
    \/ SendDelete
    \/ SendUnknownKind
    \/ Receive

SpecSession == Init /\ [][NextSession]_vars

(***************************************************************************)
(* Properties of the session.  l is a sequence of messages as sent.        *)
(***************************************************************************)
IsBegin(m) == m.kind = "Fence" /\ m.type = FenceType_SceneBegin
IsEnd(m) == m.kind = "Fence" /\ m.type = FenceType_SceneEnd
IsMutation(m) == m.kind \in {"Set", "Delete"}
Front(l) == SubSeq(l, 1, Len(l) - 1)
Last(l) == l[Len(l)]

\* whether a fence is open behind the stream l
RECURSIVE OpenBehind(_)
OpenBehind(l) ==
    IF l = <<>> THEN FALSE
    ELSE IF IsBegin(Last(l)) THEN TRUE
    ELSE IF IsEnd(Last(l)) THEN FALSE
    ELSE OpenBehind(Front(l))

\* the mutations of l behind the SceneBegin that opened the fence open behind l
RECURSIVE SinceBegin(_)
SinceBegin(l) ==
    IF l = <<>> \/ ~OpenBehind(l) THEN <<>>
    ELSE IF IsMutation(Last(l)) THEN Append(SinceBegin(Front(l)), Wire(Last(l)))
    ELSE SinceBegin(Front(l))

\* the scene updates the stream l yields
RECURSIVE Updates(_)
Updates(l) ==
    IF l = <<>> THEN <<>>
    ELSE IF IsEnd(Last(l)) /\ OpenBehind(Front(l))
         THEN Append(Updates(Front(l)), SinceBegin(Front(l)))
    ELSE IF IsMutation(Last(l)) /\ ~OpenBehind(Front(l))
         THEN Append(Updates(Front(l)), <<Wire(Last(l))>>)
    ELSE Updates(Front(l))

FenceTypes(l) == [i \in 1..Len(l) |-> IF l[i].kind = "Fence" THEN l[i].type ELSE -1]

\* C2: a SceneBegin received while a fence is open, and a SceneEnd received while
\* none is open, is a sequencing error (and nothing else is); so the stream
\* [SceneEnd] and the stream [SceneBegin, SceneBegin] are rejected.
C2_FenceSequencing ==
    log # <<>> =>
        /\ (lastResult = "FenceSequencingError") <=>
              \/ IsBegin(Last(log)) /\ OpenBehind(Front(log))
              \/ IsEnd(Last(log)) /\ ~OpenBehind(Front(log))
        /\ fenceOpen = OpenBehind(log)
        /\ FenceTypes(log) = <<FenceType_SceneEnd>> => lastResult = "FenceSequencingError"
        /\ FenceTypes(log) = <<FenceType_SceneBegin, FenceType_SceneBegin>> =>
              lastResult = "FenceSequencingError"

C2_Witness ==
    /\ FenceTypes(log) = <<FenceType_SceneBegin, FenceType_SceneBegin>>
    /\ lastResult = "FenceSequencingError"
    /\ fenceOpen

\* C3: the mutations received between a SceneBegin and its SceneEnd are staged in
\* the order received and none of them is applied before the SceneEnd; the
\* SceneEnd applies them as exactly one update.
C3_AtomicUpdate ==
    /\ applied = Updates(log)
    /\ staged = SinceBegin(log)
    /\ (log # <<>> /\ IsEnd(Last(log)) /\ OpenBehind(Front(log))) =>
          /\ Len(applied) = Len(Updates(Front(log))) + 1
          /\ Last(applied) = SinceBegin(Front(log))
    /\ (log # <<>> /\ IsMutation(Last(log)) /\ OpenBehind(Front(log))) =>
          /\ applied = Updates(Front(log))
          /\ Last(staged) = Wire(Last(log))

C3_Witness ==
    /\ Len(log) = 4
    /\ IsBegin(log[1])
    /\ log[2].kind = "Set" /\ log[2].scene = <<5>>
    /\ log[3].kind = "Set" /\ log[3].scene = <<6, 7>>
    /\ IsEnd(log[4])
    /\ Len(applied) = 1
    /\ Len(applied[1]) = 2
    /\ applied[1][1].scene = <<5>>
    /\ applied[1][2].scene = <<6, 7>>
    /\ staged = <<>>

\* C8: the discriminant of a frame is read before dispatch; a discriminant outside
\* the kinds gives UnknownKind and no variant is constructed, a discriminant of a
\* kind gives a variant of that kind.
C8_UnknownKind ==
    log # <<>> =>
        IF Last(log).kind = "Bad"
        THEN lastResult = "UnknownKind" /\ decoded = NoMsg
        ELSE lastResult # "UnknownKind" /\ decoded.kind = Last(log).kind

C8_Witness ==
    /\ Len(log) = 2
    /\ IsBegin(log[1])
    /\ log[2].kind = "Bad"
    /\ log[2].tag = 10
    /\ lastResult = "UnknownKind"
    /\ decoded = NoMsg
    /\ fenceOpen

(***************************************************************************)
(* Request messages (Get, Screenshot, Query, Poll): the issuer constructs  *)
(* the request and shares it; the resolver attaches the result and then    *)
(* stores true to ready; the waiter polls ready and, once it has loaded    *)
(* true, reads the result.  ready is a std::atomic_bool: its loads and     *)
(* stores are single steps.                                                *)
(***************************************************************************)
Responses == {[ResponseMessage_ctor EXCEPT !.text = t] : t \in SeqsUpTo(Strings, MaxTexts)}

Issue ==
    /\ req = NoMsg
    /\ \E k \in RequestKinds :
          /\ req' \in Constructed(k)
          /\ attach' \in IF k = "Query" THEN Responses ELSE {Null}
    /\ rpc' = "attach"
    /\ wpc' = "poll"
    /\ UNCHANGED <<seen, got>>
    /\ UNCHANGED <<codecVars, sessionVars>>

ResolverAttach ==
    /\ rpc = "attach"
    /\ req' = IF req.kind = "Query" THEN [req EXCEPT !.response = attach] ELSE req
    /\ rpc' = "flip"
    /\ UNCHANGED <<attach, wpc, seen, got>>
    /\ UNCHANGED <<codecVars, sessionVars>>

ResolverReady ==
    /\ rpc = "flip"
    /\ req' = [req EXCEPT !.ready = TRUE]
    /\ rpc' = "done"
    /\ UNCHANGED <<attach, wpc, seen, got>>
    /\ UNCHANGED <<codecVars, sessionVars>>

WaiterPoll ==
    /\ wpc = "poll"
    /\ seen' = req.ready
    /\ wpc' = IF req.ready THEN "read" ELSE "poll"
    /\ UNCHANGED <<req, attach, rpc, got>>
    /\ UNCHANGED <<codecVars, sessionVars>>

WaiterRead ==
    /\ wpc = "read"
    /\ got' = IF req.kind = "Query" THEN req.response ELSE Null
    /\ wpc' = "done"
    /\ UNCHANGED <<req, attach, rpc, seen>>
    /\ UNCHANGED <<codecVars, sessionVars>>

WaiterCancel ==
    /\ wpc = "poll"
    /\ wpc' = "cancelled"
    /\ UNCHANGED <<req, attach, rpc, seen, got>>
    /\ UNCHANGED <<codecVars, sessionVars>>

NextAsync ==
    \/ Issue
    \/ ResolverAttach
    \/ ResolverReady
    \/ WaiterPoll
    \/ WaiterRead
    \/ WaiterCancel

SpecAsync == Init /\ [][NextAsync]_vars

\* C4: the resolver of a Query attaches the Response and stores true to ready as
\* its last step, and a waiter that has observed ready = true reads exactly the
\* attached Response, never an absent one.
C4_ReadyThenResponse ==
    /\ (req.kind = "Query" /\ rpc = "done") => (req.ready /\ req.response = attach)
    /\ (req.kind = "Query" /\ wpc = "done") => (seen /\ got = attach)

\* C5: the completion indicator of a request is "not ready" right after
\* construction, and once it is ready it never goes back to pending.
C5_SetOnce ==
    /\ []((req # NoMsg /\ rpc = "attach") => ~req.ready)
    /\ [][(req # NoMsg /\ req.ready) => req'.ready]_vars

====
